---- MODULE Spec2Model ----
(***************************************************************************)
(* Product catalog REST service (service/routes.py).                       *)
(*                                                                         *)
(* The request handlers are translated from service/routes.py.  The        *)
(* Product model (service/models.py) and the error handlers                *)
(* (service/common/error_handlers.py) are modelled from the written        *)
(* specification of the service: sections 3, 4.1, 4.2 and 7.               *)
(*                                                                         *)
(* One action is one HTTP request handled to completion.  The state is the *)
(* product table, the storage id sequence, and the last request with its   *)
(* response and the table as it was before that request; prior holds the   *)
(* request before the last one when that request created or deleted a      *)
(* product.                                                                *)
(***************************************************************************)
EXTENDS Integers, Sequences, FiniteSets, TLC

VARIABLES db, nextId, req, resp, pre, prior

vars == <<db, nextId, req, resp, pre, prior>>

(***************************************************************************)
(* Bounds                                                                  *)
(***************************************************************************)
\* ids the storage sequence hands out in one run: 1..MaxId
MaxId == 2

(***************************************************************************)
(* HTTP status codes (service/common/status.py)                            *)
(***************************************************************************)
HTTP_200_OK == 200
HTTP_201_CREATED == 201
HTTP_400_BAD_REQUEST == 400
HTTP_404_NOT_FOUND == 404
HTTP_415_UNSUPPORTED_MEDIA_TYPE == 415
HTTP_500_INTERNAL_SERVER_ERROR == 500

(***************************************************************************)
(* Python values                                                           *)
(***************************************************************************)
\* Product.id before the row is persisted (Python None)
NoneId == -1
\* a text field that is None
NoneStr == "<None>"
\* a price that is None (a freshly constructed Product)
NonePrice == -1

\* JSON values of the "available" key, tagged with their JSON type
JBool(b) == [t |-> "bool", b |-> b]
JNum(n) == [t |-> "num", n |-> n]
JStr(s) == [t |-> "str", s |-> s]

\* str.upper() on the letters the model's texts use; a text that is
\* transformed is held as a sequence of one-character strings
UpperChar(c) ==
    CASE c = "a" -> "A" [] c = "b" -> "B" [] c = "c" -> "C" [] c = "d" -> "D"
      [] c = "f" -> "F" [] c = "g" -> "G" [] c = "h" -> "H" [] c = "l" -> "L"
      [] c = "o" -> "O" [] c = "s" -> "S" [] c = "t" -> "T" [] c = "u" -> "U"
      [] OTHER -> c

RECURSIVE Upper(_)
Upper(s) == IF s = <<>> THEN "" ELSE UpperChar(Head(s)) \o Upper(Tail(s))

(***************************************************************************)
(* Entity model: Category, Product, serialize, deserialize                 *)
(***************************************************************************)
\* the closed enumeration: member names
CategoryNames == {"CLOTHS", "FOOD", "TOOLS"}

\* an enumeration member, distinct from the text of its name
CategoryMember(n) == [member |-> n]

Category == {CategoryMember(n) : n \in CategoryNames}

\* getattr(Category, name): the member, or AttributeError
HasAttrCategory(name) == name \in CategoryNames
GetAttrCategory(name) == CategoryMember(name)

\* Decimal(text): the value in hundredths, or -1 when the text is malformed
ParseDecimal(text) ==
    CASE text = "12.50" -> 1250
      [] text = "12.5" -> 1250
      [] text = "7" -> 700
      [] text = "7.00" -> 700
      [] OTHER -> -1

\* str(price) of a stored numeric value
DecimalStr(cents) ==
    CASE cents = 1250 -> "12.50"
      [] cents = 700 -> "7.00"
      [] OTHER -> NoneStr

\* Product(): a transient instance
NewProduct ==
    [id |-> NoneId, name |-> NoneStr, description |-> NoneStr,
     price |-> NonePrice, available |-> FALSE, category |-> CategoryMember(NoneStr)]

\* Product.serialize()
serialize(p) ==
    [id |-> p.id, name |-> p.name, description |-> p.description,
     price |-> DecimalStr(p.price), available |-> p.available,
     category |-> p.category.member]

\* The first field of the mapping that fails validation, in assignment
\* order name, description, price, available, category; "" when none does.
DeserializeFailure(data) ==
    CASE "name" \notin DOMAIN data -> "name"
      [] data["name"] = "" -> "name"
      [] "price" \notin DOMAIN data -> "price"
      [] ParseDecimal(data["price"]) < 0 -> "price"
      [] "available" \notin DOMAIN data -> "available"
      [] data["available"].t # "bool" -> "available"
      [] "category" \notin DOMAIN data -> "category"
      [] ~HasAttrCategory(data["category"]) -> "category"
      [] OTHER -> ""

\* the instance after a deserialize that failed at the given field: the
\* fields before it in assignment order have been assigned
PartlyAssigned(p, data, failed) ==
    LET described == IF "description" \in DOMAIN data
                     THEN data["description"] ELSE NoneStr
    IN CASE failed = "name" -> p
         [] failed = "price" ->
                [p EXCEPT !.name = data["name"], !.description = described]
         [] failed = "available" ->
                [p EXCEPT !.name = data["name"], !.description = described,
                          !.price = ParseDecimal(data["price"])]
         [] failed = "category" ->
                [p EXCEPT !.name = data["name"], !.description = described,
                          !.price = ParseDecimal(data["price"]),
                          !.available = data["available"].b]

\* Product.deserialize(data) on instance p: [exc, prod].  On success every
\* field of the mapping is assigned (an "id" key included); on failure
\* DataValidationError is raised and the instance keeps the fields that
\* were assigned before the one that failed.
deserialize(p, data) ==
    IF DeserializeFailure(data) # ""
    THEN [exc |-> "DataValidationError",
          prod |-> PartlyAssigned(p, data, DeserializeFailure(data))]
    ELSE [exc |-> "",
          prod |-> [id |-> IF "id" \in DOMAIN data THEN data["id"] ELSE p.id,
                    name |-> data["name"],
                    description |-> IF "description" \in DOMAIN data
                                    THEN data["description"] ELSE NoneStr,
                    price |-> ParseDecimal(data["price"]),
                    available |-> data["available"].b,
                    category |-> GetAttrCategory(data["category"])]]

(***************************************************************************)
(* Repository operations on the table (a set of rows)                      *)
(***************************************************************************)
Ids(rows) == {r.id : r \in rows}

\* rows as a sequence in id order
RECURSIVE InIdOrder(_)
InIdOrder(rows) ==
    IF rows = {} THEN <<>>
    ELSE LET first == CHOOSE r \in rows : \A o \in rows : r.id <= o.id
         IN <<first>> \o InIdOrder(rows \ {first})

\* Product.create(): the storage sequence generates the id
create(rows, seq, p) ==
    LET saved == [p EXCEPT !.id = seq]
    IN [db |-> rows \cup {saved}, nextId |-> seq + 1, prod |-> saved]

\* variant: the row is written without the id having been looked at
update_unchecked(rows, p) ==
    [exc |-> "", db |-> {r \in rows : r.id # p.id} \cup {p}]

\* Product.update(): [exc, db]
update(rows, p) ==
    IF p.id = NoneId
    THEN [exc |-> "DataValidationError", db |-> rows]
    ELSE [exc |-> "",
          db |-> IF p.id \in Ids(rows)
                 THEN {r \in rows : r.id # p.id} \cup {p}
                 ELSE rows]

\* Product.delete()
delete(rows, p) == {r \in rows : r.id # p.id}

\* Product.find(id): the set holding the row, empty when there is none
find(rows, product_id) == {r \in rows : r.id = product_id}

\* Product.all()
all(rows) == InIdOrder(rows)

\* Product.find_by_name(name): exact, case-sensitive
find_by_name(rows, name) == InIdOrder({r \in rows : r.name = name})

\* Product.find_by_category(category)
find_by_category(rows, category) == InIdOrder({r \in rows : r.category = category})

\* Product.find_by_price(price)
find_by_price(rows, price) == InIdOrder({r \in rows : r.price = price})

\* Product.find_by_availability(available): rows whose boolean equals the
\* value given.  The value is a tagged Python value; a str equals no bool.
PyBool(b) == [ty |-> "bool", b |-> b]
PyStr(s) == [ty |-> "str", s |-> s]
find_by_availability(rows, available) ==
    InIdOrder({r \in rows : available.ty = "bool" /\ r.available = available.b})

(***************************************************************************)
(* Responses                                                               *)
(***************************************************************************)
NoBody == <<>>
NoHeaders == {}
Response(status, body, headers) ==
    [status |-> status, body |-> body, headers |-> headers]

\* abort(code)
Abort(code) == Response(code, NoBody, NoHeaders)

\* the registered handler for DataValidationError answers 400; any other
\* uncaught exception is a server error
ErrorResponse(exc) ==
    IF exc = "DataValidationError"
    THEN Abort(HTTP_400_BAD_REQUEST)
    ELSE Abort(HTTP_500_INTERNAL_SERVER_ERROR)

\* [serialize(p) for p in prods]
RECURSIVE SerializeAll(_)
SerializeAll(prods) ==
    IF prods = <<>> THEN <<>>
    ELSE <<serialize(Head(prods))>> \o SerializeAll(Tail(prods))

(***************************************************************************)
(* Request handlers (service/routes.py)                                    *)
(***************************************************************************)
\* variant: the media type is looked for inside the header value
check_content_type_substring(headers, content_type) ==
    /\ "Content-Type" \in DOMAIN headers
    /\ headers["Content-Type"] \in {content_type, content_type \o "; charset=utf-8"}

\* check_content_type(content_type): TRUE when the request passes
check_content_type(headers, content_type) ==
    IF "Content-Type" \notin DOMAIN headers
    THEN FALSE
    ELSE headers["Content-Type"] = content_type

\* variant: the product is serialized without create() having been called
create_products_unsaved(rows, seq, r) ==
    IF ~check_content_type(r.headers, "application/json")
    THEN [db |-> rows, nextId |-> seq,
          resp |-> Abort(HTTP_415_UNSUPPORTED_MEDIA_TYPE)]
    ELSE LET d == deserialize(NewProduct, r.body)
         IN IF d.exc # ""
            THEN [db |-> rows, nextId |-> seq, resp |-> ErrorResponse(d.exc)]
            ELSE [db |-> rows, nextId |-> seq,
                  resp |-> Response(HTTP_201_CREATED, serialize(d.prod),
                                    {"Location"})]

\* variant: a failed deserialize is swallowed and the product created anyway
create_products_ignoring_validation(rows, seq, r) ==
    IF ~check_content_type(r.headers, "application/json")
    THEN [db |-> rows, nextId |-> seq,
          resp |-> Abort(HTTP_415_UNSUPPORTED_MEDIA_TYPE)]
    ELSE LET d == deserialize(NewProduct, r.body)
             c == create(rows, seq, d.prod)
         IN [db |-> c.db, nextId |-> c.nextId,
             resp |-> Response(HTTP_201_CREATED, serialize(c.prod), {"Location"})]

\* create_products(): [db, nextId, resp]
create_products(rows, seq, r) ==
    IF ~check_content_type(r.headers, "application/json")
    THEN [db |-> rows, nextId |-> seq,
          resp |-> Abort(HTTP_415_UNSUPPORTED_MEDIA_TYPE)]
    ELSE LET d == deserialize(NewProduct, r.body)
         IN IF d.exc # ""
            THEN [db |-> rows, nextId |-> seq, resp |-> ErrorResponse(d.exc)]
            ELSE LET c == create(rows, seq, d.prod)
                 IN [db |-> c.db, nextId |-> c.nextId,
                     resp |-> Response(HTTP_201_CREATED, serialize(c.prod),
                                       {"Location"})]

\* variant: the not-found test is inverted
get_product_inverted(rows, product_id) ==
    LET prod == find(rows, product_id)
    IN IF prod # {}
       THEN Abort(HTTP_404_NOT_FOUND)
       ELSE Response(HTTP_200_OK, serialize(NewProduct), NoHeaders)

\* variant: the product is not looked up by the path id
get_product_any(rows, product_id) ==
    IF rows = {}
    THEN Abort(HTTP_404_NOT_FOUND)
    ELSE Response(HTTP_200_OK, serialize(Head(all(rows))), NoHeaders)

\* get_product(product_id): the response
get_product(rows, product_id) ==
    LET prod == find(rows, product_id)
    IN IF prod = {}
       THEN Abort(HTTP_404_NOT_FOUND)
       ELSE Response(HTTP_200_OK, serialize(CHOOSE p \in prod : TRUE), NoHeaders)

\* request.args.get(key) is neither None nor empty ("if name:")
Given(args, key) == key \in DOMAIN args /\ Len(args[key]) > 0

\* the text as one string, letters unchanged
RECURSIVE Text(_)
Text(s) == IF s = <<>> THEN "" ELSE Head(s) \o Text(Tail(s))

\* variant: the category text is looked up as given
category_upper_asis(category) == Text(category)

\* category.upper()
category_upper(category) == Upper(category)

\* variant: the name filter is not applied
select_products_name_ignored(rows, args) ==
    IF Given(args, "category")
    THEN IF ~HasAttrCategory(category_upper(args["category"]))
         THEN [exc |-> "AttributeError", prods |-> <<>>]
         ELSE [exc |-> "",
               prods |-> find_by_category(
                   rows, GetAttrCategory(category_upper(args["category"])))]
    ELSE IF Given(args, "availability")
    THEN [exc |-> "",
          prods |-> find_by_availability(rows, PyStr(args["availability"]))]
    ELSE [exc |-> "", prods |-> all(rows)]

\* variant: the category filter is tried before the name filter
select_products_category_first(rows, args) ==
    IF Given(args, "category")
    THEN IF ~HasAttrCategory(category_upper(args["category"]))
         THEN [exc |-> "AttributeError", prods |-> <<>>]
         ELSE [exc |-> "",
               prods |-> find_by_category(
                   rows, GetAttrCategory(category_upper(args["category"])))]
    ELSE IF Given(args, "name")
    THEN [exc |-> "", prods |-> find_by_name(rows, args["name"])]
    ELSE IF Given(args, "availability")
    THEN [exc |-> "",
          prods |-> find_by_availability(rows, PyStr(args["availability"]))]
    ELSE [exc |-> "", prods |-> all(rows)]

\* the branch of list_all_product that looks the products up: [exc, prods]
select_products(rows, args) ==
    IF Given(args, "name")
    THEN [exc |-> "", prods |-> find_by_name(rows, args["name"])]
    ELSE IF Given(args, "category")
    THEN IF ~HasAttrCategory(category_upper(args["category"]))
         THEN [exc |-> "AttributeError", prods |-> <<>>]
         ELSE [exc |-> "",
               prods |-> find_by_category(
                   rows, GetAttrCategory(category_upper(args["category"])))]
    ELSE IF Given(args, "availability")
    THEN [exc |-> "",
          prods |-> find_by_availability(rows, PyStr(args["availability"]))]
    ELSE [exc |-> "", prods |-> all(rows)]

\* list_all_product(): the response
list_all_product(rows, args) ==
    LET sel == select_products(rows, args)
    IN IF sel.exc # ""
       THEN ErrorResponse(sel.exc)
       ELSE IF sel.prods = <<>>
       THEN Abort(HTTP_404_NOT_FOUND)
       ELSE Response(HTTP_200_OK, SerializeAll(sel.prods), NoHeaders)

\* variant: a PUT on an id that is not there inserts the product
update_product_upsert(rows, product_id, r) ==
    IF ~check_content_type(r.headers, "application/json")
    THEN [db |-> rows, resp |-> Abort(HTTP_415_UNSUPPORTED_MEDIA_TYPE)]
    ELSE LET found == find(rows, product_id)
             d == deserialize(IF found = {} THEN NewProduct
                              ELSE CHOOSE p \in found : TRUE, r.body)
         IN IF d.exc # ""
            THEN [db |-> rows, resp |-> ErrorResponse(d.exc)]
            ELSE LET prod == [d.prod EXCEPT !.id = product_id]
                 IN [db |-> {x \in rows : x.id # product_id} \cup {prod},
                     resp |-> Response(HTTP_200_OK, serialize(prod), NoHeaders)]

\* variant: the id is not set back to the path id after deserialize
update_product_body_id(rows, product_id, r) ==
    IF ~check_content_type(r.headers, "application/json")
    THEN [db |-> rows, resp |-> Abort(HTTP_415_UNSUPPORTED_MEDIA_TYPE)]
    ELSE LET found == find(rows, product_id)
         IN IF found = {}
            THEN [db |-> rows, resp |-> Abort(HTTP_404_NOT_FOUND)]
            ELSE LET d == deserialize(CHOOSE p \in found : TRUE, r.body)
                 IN IF d.exc # ""
                    THEN [db |-> rows, resp |-> ErrorResponse(d.exc)]
                    ELSE LET u == update(rows, d.prod)
                         IN IF u.exc # ""
                            THEN [db |-> rows, resp |-> ErrorResponse(u.exc)]
                            ELSE [db |-> u.db,
                                  resp |-> Response(HTTP_200_OK, serialize(d.prod),
                                                    NoHeaders)]

\* variant: update() is called although deserialize failed
update_product_update_after_failure(rows, product_id, r) ==
    IF ~check_content_type(r.headers, "application/json")
    THEN [db |-> rows, resp |-> Abort(HTTP_415_UNSUPPORTED_MEDIA_TYPE)]
    ELSE LET found == find(rows, product_id)
         IN IF found = {}
            THEN [db |-> rows, resp |-> Abort(HTTP_404_NOT_FOUND)]
            ELSE LET d == deserialize(CHOOSE p \in found : TRUE, r.body)
                     prod == [d.prod EXCEPT !.id = product_id]
                     u == update(rows, prod)
                 IN [db |-> u.db,
                     resp |-> IF d.exc # "" THEN ErrorResponse(d.exc)
                              ELSE Response(HTTP_200_OK, serialize(prod), NoHeaders)]

\* update_product(product_id): [db, resp]
update_product(rows, product_id, r) ==
    IF ~check_content_type(r.headers, "application/json")
    THEN [db |-> rows, resp |-> Abort(HTTP_415_UNSUPPORTED_MEDIA_TYPE)]
    ELSE LET found == find(rows, product_id)
         IN IF found = {}
            THEN [db |-> rows, resp |-> Abort(HTTP_404_NOT_FOUND)]
            ELSE LET d == deserialize(CHOOSE p \in found : TRUE, r.body)
                 IN IF d.exc # ""
                    THEN [db |-> rows, resp |-> ErrorResponse(d.exc)]
                    ELSE LET prod == [d.prod EXCEPT !.id = product_id]
                             u == update(rows, prod)
                         IN IF u.exc # ""
                            THEN [db |-> rows, resp |-> ErrorResponse(u.exc)]
                            ELSE [db |-> u.db,
                                  resp |-> Response(HTTP_200_OK, serialize(prod),
                                                    NoHeaders)]

\* variant: the confirmation is sent without delete() having been called
delete_product_not_deleted(rows, product_id) ==
    LET found == find(rows, product_id)
    IN IF found = {}
       THEN [db |-> rows, resp |-> Abort(HTTP_404_NOT_FOUND)]
       ELSE [db |-> rows,
             resp |-> Response(HTTP_200_OK, [message |-> "deleted"], NoHeaders)]

\* variant: deleting an id that is not there is confirmed as well
delete_product_missing_ok(rows, product_id) ==
    LET found == find(rows, product_id)
    IN [db |-> IF found = {} THEN rows ELSE delete(rows, CHOOSE p \in found : TRUE),
        resp |-> Response(HTTP_200_OK, [message |-> "deleted"], NoHeaders)]

\* delete_product(product_id): [db, resp]
delete_product(rows, product_id) ==
    LET found == find(rows, product_id)
    IN IF found = {}
       THEN [db |-> rows, resp |-> Abort(HTTP_404_NOT_FOUND)]
       ELSE [db |-> delete(rows, CHOOSE p \in found : TRUE),
             resp |-> Response(HTTP_200_OK, [message |-> "deleted"], NoHeaders)]

\* products[0].id = None; products[0].update(): [exc, db]
update_a_product_no_id(rows, p) == update(rows, [p EXCEPT !.id = NoneId])

(***************************************************************************)
(* Requests                                                                *)
(***************************************************************************)
Names == {"Fedora", "fedora"}
NoArgs == <<>>
JsonHeaders == [h \in {"Content-Type"} |-> "application/json"]
HeaderSets ==
    {<<>>, JsonHeaders,
     [h \in {"Content-Type"} |-> "text/plain"],
     [h \in {"Content-Type"} |-> "application/json; charset=utf-8"]}

ValidBody(n, p, a, c) ==
    [name |-> n, description |-> "A red hat", price |-> p,
     available |-> JBool(a), category |-> c]

Without(data, key) == [k \in DOMAIN data \ {key} |-> data[k]]
With(data, key, val) ==
    [k \in DOMAIN data \cup {key} |-> IF k = key THEN val ELSE data[k]]

Fedora == ValidBody("Fedora", "12.50", TRUE, "CLOTHS")

ValidBodies ==
    {Fedora,
     ValidBody("fedora", "12.50", TRUE, "CLOTHS"),
     ValidBody("Fedora", "12.50", FALSE, "FOOD"),
     ValidBody("fedora", "7", FALSE, "CLOTHS"),
     With(Without(Fedora, "description"), "price", "12.5"),
     With(ValidBody("Fedora", "12.50", TRUE, "FOOD"), "id", MaxId)}

InvalidBodies ==
    {Without(Fedora, "name"), With(Fedora, "name", ""),
     With(Fedora, "price", "abc"),
     Without(Fedora, "available"), With(Fedora, "available", JNum(1)),
     With(Fedora, "available", JStr("true")),
     With(Fedora, "category", "BOGUS")}

Bodies == ValidBodies \cup InvalidBodies

\* headers and body of a POST: every body as JSON, and a valid and an
\* invalid body under the other Content-Types
PostPayloads ==
    {<<JsonHeaders, b>> : b \in Bodies}
    \cup {<<h, Fedora>> : h \in HeaderSets \ {JsonHeaders}}
    \cup {<<[h \in {"Content-Type"} |-> "text/plain"], Without(Fedora, "name")>>}

\* headers and body of a PUT
PutPayloads ==
    {<<JsonHeaders, b>> :
        b \in {ValidBody("fedora", "7", FALSE, "CLOTHS"),
               With(Without(Fedora, "description"), "price", "12.5"),
               With(ValidBody("Fedora", "12.50", TRUE, "FOOD"), "id", MaxId),
               Without(Fedora, "name"), With(Fedora, "available", JNum(1)),
               With(Fedora, "category", "BOGUS")}}
    \cup {<<h, Fedora>> : h \in {<<>>, [k \in {"Content-Type"} |-> "text/plain"]}}

\* query texts; the category text is held character by character
CategoryTexts ==
    {<<"C", "L", "O", "T", "H", "S">>, <<"c", "l", "o", "t", "h", "s">>,
     <<"C", "l", "o", "T", "h", "s">>,
     <<"f", "o", "o", "d">>, <<"F", "o", "o", "d">>,
     <<"t", "o", "o", "l", "s">>, <<"b", "o", "g", "u", "s">>, <<>>}
NameTexts == Names \cup {"Hat", ""}
AvailabilityTexts == {"True", "False", "true", ""}

Arg(key, val) == [k \in {key} |-> val]

QueryArgs ==
    {NoArgs}
    \cup {Arg("name", n) : n \in NameTexts}
    \cup {Arg("category", c) : c \in CategoryTexts}
    \cup {Arg("availability", a) : a \in AvailabilityTexts}
    \cup {With(Arg("name", n), "category", <<"f", "o", "o", "d">>) : n \in {"Fedora", ""}}
    \cup {With(Arg("category", c), "availability", "True") :
              c \in {<<"f", "o", "o", "d">>, <<>>}}
    \cup {With(With(Arg("name", "fedora"), "category", <<"f", "o", "o", "d">>),
                "availability", "False"),
          With(With(Arg("name", ""), "category", <<>>), "availability", ""),
          With(Arg("name", ""), "availability", "False"),
          With(Arg("name", "Fedora"), "category", <<"b", "o", "g", "u", "s">>)}

PathIds == 0..MaxId

Request(method, product_id, headers, body, args) ==
    [method |-> method, product_id |-> product_id, headers |-> headers,
     body |-> body, args |-> args]

(***************************************************************************)
(* The state machine                                                       *)
(***************************************************************************)
Init ==
    /\ db = {}
    /\ nextId = 1
    /\ req = Request("NONE", NoneId, <<>>, <<>>, NoArgs)
    /\ resp = Response(0, NoBody, NoHeaders)
    /\ pre = {}
    /\ prior = [set |-> FALSE, req |-> Request("NONE", NoneId, <<>>, <<>>, NoArgs),
                resp |-> Response(0, NoBody, NoHeaders)]

\* the exchange just completed, kept for the next step when it created or
\* deleted a product
Remember ==
    prior' = IF \/ resp.status = HTTP_201_CREATED
                \/ req.method = "DELETE" /\ resp.status = HTTP_200_OK
             THEN [set |-> TRUE, req |-> req, resp |-> resp]
             ELSE [set |-> FALSE, req |-> Request("NONE", NoneId, <<>>, <<>>, NoArgs),
                   resp |-> Response(0, NoBody, NoHeaders)]

\* POST /products
CreateProducts ==
    \E payload \in PostPayloads :
        LET r == Request("POST", NoneId, payload[1], payload[2], NoArgs)
            out == create_products(db, nextId, r)
        IN /\ out.nextId <= MaxId + 1
           /\ req' = r
           /\ pre' = db
           /\ db' = out.db
           /\ nextId' = out.nextId
           /\ resp' = out.resp
           /\ Remember

\* GET /products/<id>
GetProduct ==
    \E product_id \in PathIds :
        /\ req' = Request("GET", product_id, <<>>, <<>>, NoArgs)
        /\ pre' = db
        /\ resp' = get_product(db, product_id)
        /\ UNCHANGED <<db, nextId>>
        /\ Remember

\* GET /products
ListAllProduct ==
    \E args \in QueryArgs :
        /\ req' = Request("LIST", NoneId, <<>>, <<>>, args)
        /\ pre' = db
        /\ resp' = list_all_product(db, args)
        /\ UNCHANGED <<db, nextId>>
        /\ Remember

\* PUT /products/<id>
UpdateProduct ==
    \E product_id \in PathIds, payload \in PutPayloads :
        LET r == Request("PUT", product_id, payload[1], payload[2], NoArgs)
            out == update_product(db, product_id, r)
        IN /\ req' = r
           /\ pre' = db
           /\ db' = out.db
           /\ resp' = out.resp
           /\ UNCHANGED nextId
           /\ Remember

\* DELETE /products/<id>
DeleteProduct ==
    \E product_id \in PathIds :
        LET out == delete_product(db, product_id)
        IN /\ req' = Request("DELETE", product_id, <<>>, <<>>, NoArgs)
           /\ pre' = db
           /\ db' = out.db
           /\ resp' = out.resp
           /\ UNCHANGED nextId
           /\ Remember

\* update() called on an instance whose id is None: a persisted product
\* fetched and stripped of its id, or a product never created
UpdateNoId ==
    \E p \in db \cup {deserialize(NewProduct, Fedora).prod} :
        LET out == update_a_product_no_id(db, p)
        IN /\ req' = Request("update()", NoneId, <<>>, Fedora, NoArgs)
           /\ pre' = db
           /\ db' = out.db
           /\ resp' = Response(0, [exc |-> out.exc, name |-> p.name], NoHeaders)
           /\ UNCHANGED nextId
           /\ Remember

Next ==
    \/ UpdateNoId
    \/ CreateProducts
    \/ ListAllProduct
    \/ UpdateProduct
    \/ GetProduct
    \/ DeleteProduct

Spec == Init /\ [][Next]_vars

(***************************************************************************)
(* Properties                                                              *)
(***************************************************************************)
\* the serialized product s carries the field values of the posted mapping:
\* texts equal, price equal as a number, category by member name
SameFields(s, data) ==
    /\ s.name = data["name"]
    /\ s.description = (IF "description" \in DOMAIN data
                         THEN data["description"] ELSE NoneStr)
    /\ ParseDecimal(s.price) = ParseDecimal(data["price"])
    /\ s.available = data["available"].b
    /\ s.category = data["category"]

\* C1: a valid body posted as application/json is answered 201 with the
\* serialized product and a Location header, and a GET of the returned id
\* that follows it immediately is answered 200 with the posted name,
\* description, price, available and category.
C1_CreateThenRead ==
    /\ (req.method = "POST" /\ req.headers = JsonHeaders /\ req.body \in ValidBodies)
        => /\ resp.status = HTTP_201_CREATED
           /\ "Location" \in resp.headers
           /\ SameFields(resp.body, req.body)
    /\ (/\ req.method = "GET" /\ prior.set /\ prior.req.method = "POST"
         /\ req.product_id = prior.resp.body.id)
        => /\ resp.status = HTTP_200_OK
           /\ resp.body.id = prior.resp.body.id
           /\ SameFields(resp.body, prior.req.body)

\* C1 witness: a product posted with price text "12.5" and no description
\* is read back right after its creation
C1_Witness ==
    /\ req.method = "GET" /\ resp.status = HTTP_200_OK
    /\ prior.set /\ prior.req.method = "POST"
    /\ prior.resp.status = HTTP_201_CREATED
    /\ prior.req.body["price"] = "12.5"
    /\ req.product_id = prior.resp.body.id
    /\ resp.body.price = "12.50"


\* C2: every persisted product has an id, no two persisted products share
\* one, a successful create returns an id that no product persisted before
\* it had and under which the new product is now persisted, and two creates
\* in a row return different ids.
C2_UniqueIds ==
    /\ \A r \in db : r.id # NoneId
    /\ \A r1, r2 \in db : r1.id = r2.id => r1 = r2
    /\ (req.method = "POST" /\ resp.status = HTTP_201_CREATED)
        => /\ resp.body.id # NoneId
           /\ resp.body.id \notin Ids(pre)
           /\ \E r \in db : r.id = resp.body.id /\ db = pre \cup {r}
           /\ (prior.set /\ prior.req.method = "POST")
                => resp.body.id # prior.resp.body.id

\* C2 witness: a second create in a row, with a product already persisted
\* under the id of the first
C2_Witness ==
    /\ req.method = "POST" /\ resp.status = HTTP_201_CREATED
    /\ prior.set /\ prior.req.method = "POST"
    /\ prior.resp.body.id \in Ids(pre)
    /\ Cardinality(db) = 2

HasJsonContentType(r) ==
    "Content-Type" \in DOMAIN r.headers /\ r.headers["Content-Type"] = "application/json"

\* C3: a POST whose Content-Type is missing or is not application/json is
\* answered 415 and leaves the persisted products as they were.
C3_WrongContentType ==
    (req.method = "POST" /\ ~HasJsonContentType(req))
        => resp.status = HTTP_415_UNSUPPORTED_MEDIA_TYPE /\ db = pre

\* C3 witness: a valid body posted as "application/json; charset=utf-8"
\* while a product is persisted
C3_Witness ==
    /\ req.method = "POST" /\ req.body = Fedora
    /\ "Content-Type" \in DOMAIN req.headers
    /\ req.headers["Content-Type"] = "application/json; charset=utf-8"
    /\ resp.status = HTTP_415_UNSUPPORTED_MEDIA_TYPE
    /\ db # {}

\* C4: a POST of a JSON body that fails validation is answered 400 and
\* persists nothing.
C4_InvalidBody ==
    (req.method = "POST" /\ HasJsonContentType(req) /\ req.body \in InvalidBodies)
        => resp.status = HTTP_400_BAD_REQUEST /\ db = pre

\* C4 witness: a body with no name posted while a product is persisted
C4_Witness ==
    /\ req.method = "POST" /\ HasJsonContentType(req)
    /\ "name" \notin DOMAIN req.body
    /\ resp.status = HTTP_400_BAD_REQUEST
    /\ db # {}

\* the entries of a JSON array
BodySet(body) == {body[i] : i \in DOMAIN body}

\* the response lists exactly the rows: one serialized entry for each
ListsExactly(response, rows) ==
    /\ response.status = HTTP_200_OK
    /\ Len(response.body) = Cardinality(rows)
    /\ BodySet(response.body) = {serialize(r) : r \in rows}

\* the letters of each member name, and the lower-case letter of each
NameChars(n) ==
    CASE n = "CLOTHS" -> <<"C", "L", "O", "T", "H", "S">>
      [] n = "FOOD" -> <<"F", "O", "O", "D">>
      [] n = "TOOLS" -> <<"T", "O", "O", "L", "S">>
LowerChar(c) ==
    CASE c = "C" -> "c" [] c = "L" -> "l" [] c = "O" -> "o" [] c = "T" -> "t"
      [] c = "H" -> "h" [] c = "S" -> "s" [] c = "F" -> "f" [] c = "D" -> "d"
      [] OTHER -> c

\* s writes the member name n in some mix of upper and lower case
IsSpellingOf(s, n) ==
    /\ Len(s) = Len(NameChars(n))
    /\ \A i \in 1..Len(s) : s[i] \in {NameChars(n)[i], LowerChar(NameChars(n)[i])}

Supplied(args, key) == key \in DOMAIN args /\ Len(args[key]) > 0

\* the filter a listing request asks for, by precedence name, category,
\* availability
AppliedFilter(args) ==
    IF Supplied(args, "name") THEN "name"
    ELSE IF Supplied(args, "category") THEN "category"
    ELSE IF Supplied(args, "availability") THEN "availability"
    ELSE "none"

\* the rows the requested filter matches: by name exactly, by the category
\* member the text spells, by the boolean the text True or False writes
MatchesOf(rows, args) ==
    CASE AppliedFilter(args) = "name" -> {r \in rows : r.name = args["name"]}
      [] AppliedFilter(args) = "category" ->
            {r \in rows : \E n \in CategoryNames :
                /\ IsSpellingOf(args["category"], n)
                /\ r.category = CategoryMember(n)}
      [] AppliedFilter(args) = "availability" ->
            {r \in rows : \/ args["availability"] = "True" /\ r.available
                          \/ args["availability"] = "False" /\ ~r.available}
      [] OTHER -> rows

\* the filter value denotes something to match: a category text spells a
\* member, an availability text is True or False
FilterDenotes(args) ==
    /\ AppliedFilter(args) = "category"
        => \E n \in CategoryNames : IsSpellingOf(args["category"], n)
    /\ AppliedFilter(args) = "availability"
        => args["availability"] \in {"True", "False"}

\* C5: GET /products is answered 404 exactly when the selected set (every
\* persisted product without a filter, the filter's matches otherwise) is
\* empty, and otherwise 200 with one entry per selected product; never 200
\* with an empty array.  Stated over requests whose filter value denotes
\* something to match.
C5_ListPolicy ==
    (req.method = "LIST" /\ FilterDenotes(req.args))
        => /\ resp.status = HTTP_404_NOT_FOUND <=> MatchesOf(pre, req.args) = {}
           /\ MatchesOf(pre, req.args) # {}
                => ListsExactly(resp, MatchesOf(pre, req.args))
           /\ ~(resp.status = HTTP_200_OK /\ Len(resp.body) = 0)

\* the same policy over the requests that do not filter by availability
ListPolicyOtherFilters ==
    (req.method = "LIST" /\ FilterDenotes(req.args)
     /\ AppliedFilter(req.args) # "availability")
        => /\ resp.status = HTTP_404_NOT_FOUND <=> MatchesOf(pre, req.args) = {}
           /\ MatchesOf(pre, req.args) # {}
                => ListsExactly(resp, MatchesOf(pre, req.args))
           /\ ~(resp.status = HTTP_200_OK /\ Len(resp.body) = 0)

\* C6: find_by_name, find_by_category, find_by_availability and
\* find_by_price return exactly the persisted products whose field equals
\* the value (names compared case-sensitively), as many as a filter of the
\* table counts, and GET /products?name=v lists that subset for the name.
C6_FindersExact ==
    /\ \A v \in NameTexts :
          LET got == find_by_name(db, v)
          IN /\ BodySet(got) = {r \in db : r.name = v}
             /\ Len(got) = Cardinality({r \in db : r.name = v})
    /\ \A c \in Category :
          LET got == find_by_category(db, c)
          IN /\ BodySet(got) = {r \in db : r.category = c}
             /\ Len(got) = Cardinality({r \in db : r.category = c})
    /\ \A b \in BOOLEAN :
          LET got == find_by_availability(db, PyBool(b))
          IN /\ BodySet(got) = {r \in db : r.available = b}
             /\ Len(got) = Cardinality({r \in db : r.available = b})
    /\ \A v \in {700, 1250, 999} :
          LET got == find_by_price(db, v)
          IN /\ BodySet(got) = {r \in db : r.price = v}
             /\ Len(got) = Cardinality({r \in db : r.price = v})
    /\ (req.method = "LIST" /\ Supplied(req.args, "name"))
        => LET same == {r \in pre : r.name = req.args["name"]}
           IN IF same = {}
              THEN resp.status = HTTP_404_NOT_FOUND
              ELSE ListsExactly(resp, same)

\* C6 witness: two products whose names differ only in case are persisted
\* and the listing by one of the names returns one of them
C6_Witness ==
    /\ req.method = "LIST" /\ Supplied(req.args, "name")
    /\ req.args["name"] = "Fedora"
    /\ \E r1, r2 \in db : r1.name = "Fedora" /\ r2.name = "fedora"
    /\ resp.status = HTTP_200_OK /\ Len(resp.body) = 1

\* C7: with a product persisted whose available is b, GET
\* /products?availability=<b>, b written True or False, is answered 200
\* with exactly the persisted products whose available equals b.
C7_AvailabilityFilter ==
    (/\ req.method = "LIST"
     /\ AppliedFilter(req.args) = "availability"
     /\ req.args["availability"] \in {"True", "False"}
     /\ \E r \in pre : r.available = (req.args["availability"] = "True"))
        => ListsExactly(resp, {r \in pre :
                                  r.available = (req.args["availability"] = "True")})

\* C8: for a category text that spells a member name in any letter case,
\* GET /products?category=text selects the persisted products of that
\* member: 200 with exactly those when there is one, whatever the case.
C8_CategoryAnyCase ==
    \A n \in CategoryNames :
        (/\ req.method = "LIST"
         /\ AppliedFilter(req.args) = "category"
         /\ IsSpellingOf(req.args["category"], n))
            => LET same == {r \in pre : r.category = CategoryMember(n)}
               IN IF same = {}
                  THEN resp.status = HTTP_404_NOT_FOUND
                  ELSE ListsExactly(resp, same)

\* C8 witness: a listing by the mixed-case text "CloThs" returns a product
\* while a product of another category is persisted too
C8_Witness ==
    /\ req.method = "LIST" /\ AppliedFilter(req.args) = "category"
    /\ req.args["category"] = <<"C", "l", "o", "T", "h", "s">>
    /\ resp.status = HTTP_200_OK
    /\ \E r \in db : r.category = CategoryMember("FOOD")
    /\ Len(resp.body) < Cardinality(db)

\* C9: GET /products/<id> is answered 404 when no persisted product has
\* the id and otherwise 200 with the serialization of the product with
\* that id, and leaves the persisted products as they were.
C9_ReadById ==
    req.method = "GET"
        => /\ db = pre
           /\ IF \E r \in pre : r.id = req.product_id
              THEN /\ resp.status = HTTP_200_OK
                   /\ resp.body.id = req.product_id
                   /\ \E r \in pre : resp.body = serialize(r)
              ELSE resp.status = HTTP_404_NOT_FOUND

\* C9 witness: with two products persisted the second is read
C9_Witness ==
    /\ req.method = "GET" /\ resp.status = HTTP_200_OK
    /\ Cardinality(db) = 2
    /\ \E r \in db : r.id < req.product_id

\* C10: a PUT sent as application/json for an id no persisted product has
\* is answered 404 whatever its body, and changes no persisted product.
C10_UpdateMissing ==
    (/\ req.method = "PUT" /\ HasJsonContentType(req)
     /\ req.product_id \notin Ids(pre))
        => resp.status = HTTP_404_NOT_FOUND /\ db = pre

\* C10 witness: a valid body carrying an id is put to an id that is not
\* there while a product is persisted
C10_Witness ==
    /\ req.method = "PUT" /\ HasJsonContentType(req)
    /\ req.body \in ValidBodies /\ "id" \in DOMAIN req.body
    /\ req.product_id \notin Ids(pre)
    /\ pre # {}
    /\ resp.status = HTTP_404_NOT_FOUND

\* C11: a PUT of a valid JSON body on a persisted product is answered 200
\* and leaves one product under the path id, with the field values of the
\* body; an id in the body is ignored, the number of persisted products is
\* unchanged and every other product keeps its id and field values.
C11_UpdateInPlace ==
    /\ (/\ req.method = "PUT" /\ HasJsonContentType(req)
         /\ req.product_id \in Ids(pre) /\ req.body \in ValidBodies)
        => resp.status = HTTP_200_OK
    /\ (req.method = "PUT" /\ resp.status = HTTP_200_OK)
        => /\ resp.body.id = req.product_id
           /\ SameFields(resp.body, req.body)
           /\ \E r \in db :
                 /\ r.id = req.product_id
                 /\ SameFields(serialize(r), req.body)
                 /\ \A o \in db : o.id = req.product_id => o = r
           /\ Cardinality(db) = Cardinality(pre)
           /\ {r \in db : r.id # req.product_id}
                 = {r \in pre : r.id # req.product_id}

\* C11 witness: a body carrying the id of another persisted product is put
\* to a product whose fields differ from the body's
C11_Witness ==
    /\ req.method = "PUT" /\ resp.status = HTTP_200_OK
    /\ "id" \in DOMAIN req.body
    /\ req.body["id"] # req.product_id
    /\ req.body["id"] \in Ids(pre)
    /\ db # pre

\* C12: a DELETE of a persisted product is answered 200 and removes that
\* product and no other: the count drops by one, the others are unchanged,
\* and the id stays without a product, its GET answered 404, through every
\* later request that is not a successful create.
C12_DeleteRemoves ==
    [][/\ (req'.method = "DELETE" /\ req'.product_id \in Ids(db))
            => /\ resp'.status = HTTP_200_OK
               /\ req'.product_id \notin Ids(db')
               /\ Cardinality(db') = Cardinality(db) - 1
               /\ db' = {r \in db : r.id # req'.product_id}
       /\ \A i \in PathIds :
            (/\ i \notin Ids(db)
             /\ ~(req'.method = "POST" /\ resp'.status = HTTP_201_CREATED))
                => /\ i \notin Ids(db')
                   /\ (req'.method = "GET" /\ req'.product_id = i)
                        => resp'.status = HTTP_404_NOT_FOUND]_vars

\* C12 witness: right after the delete of one of two products its id is
\* read
C12_Witness ==
    /\ prior.set /\ prior.req.method = "DELETE"
    /\ prior.resp.status = HTTP_200_OK
    /\ req.method = "GET" /\ req.product_id = prior.req.product_id
    /\ resp.status = HTTP_404_NOT_FOUND
    /\ db # {}

\* C13: a DELETE for an id no persisted product has is answered 404 and
\* leaves the persisted products as they were; the same id deleted twice
\* in a row gives 200 and then 404.
C13_DeleteMissing ==
    /\ (req.method = "DELETE" /\ req.product_id \notin Ids(pre))
        => resp.status = HTTP_404_NOT_FOUND /\ db = pre
    /\ (/\ prior.set /\ prior.req.method = "DELETE"
         /\ prior.resp.status = HTTP_200_OK
         /\ req.method = "DELETE" /\ req.product_id = prior.req.product_id)
        => resp.status = HTTP_404_NOT_FOUND /\ db = pre

\* C13 witness: the second of two deletes of the same id while another
\* product is persisted
C13_Witness ==
    /\ prior.set /\ prior.req.method = "DELETE"
    /\ prior.resp.status = HTTP_200_OK
    /\ req.method = "DELETE" /\ req.product_id = prior.req.product_id
    /\ resp.status = HTTP_404_NOT_FOUND
    /\ db # {}

\* C14: update() on an instance whose id is None fails with
\* DataValidationError and writes nothing: the persisted rows are the same
\* after the call as before it.
C14_UpdateWithoutId ==
    req.method = "update()"
        => resp.body.exc = "DataValidationError" /\ db = pre

\* C14 witness: update() is called on an instance without id while two
\* products are persisted
C14_Witness ==
    /\ req.method = "update()"
    /\ resp.body.exc = "DataValidationError"
    /\ Cardinality(db) = 2

OnlyApplied(args) ==
    IF AppliedFilter(args) = "none" THEN NoArgs
    ELSE Arg(AppliedFilter(args), args[AppliedFilter(args)])

\* C16: GET /products applies one filter at most, the first of name,
\* category, availability supplied with a non-empty value: the answer is
\* the answer to the request with that filter alone, a name filter lists
\* the products of that name and a category filter those of the member it
\* spells whatever the later parameters are, and a request whose filter
\* parameters are all empty lists every product.
C16_OneFilterByPrecedence ==
    req.method = "LIST"
        => /\ resp = list_all_product(pre, OnlyApplied(req.args))
           /\ AppliedFilter(req.args) = "name"
                => LET same == {r \in pre : r.name = req.args["name"]}
                   IN IF same = {} THEN resp.status = HTTP_404_NOT_FOUND
                      ELSE ListsExactly(resp, same)
           /\ \A n \in CategoryNames :
                (/\ AppliedFilter(req.args) = "category"
                 /\ IsSpellingOf(req.args["category"], n))
                    => LET same == {r \in pre : r.category = CategoryMember(n)}
                       IN IF same = {} THEN resp.status = HTTP_404_NOT_FOUND
                          ELSE ListsExactly(resp, same)
           /\ AppliedFilter(req.args) = "none"
                => IF pre = {} THEN resp.status = HTTP_404_NOT_FOUND
                   ELSE ListsExactly(resp, pre)

\* C16 witness: name, category and availability are all supplied, and the
\* products of the name are listed although none is of the category
C16_Witness ==
    /\ req.method = "LIST"
    /\ DOMAIN req.args = {"name", "category", "availability"}
    /\ AppliedFilter(req.args) = "name"
    /\ resp.status = HTTP_200_OK
    /\ \A r \in db : r.category # CategoryMember("FOOD")
    /\ \E r \in db : r.name # req.args["name"]

\* a request whose three filter parameters are all empty lists the two
\* persisted products
AllEmptyListsAll ==
    /\ req.method = "LIST"
    /\ DOMAIN req.args = {"name", "category", "availability"}
    /\ AppliedFilter(req.args) = "none"
    /\ resp.status = HTTP_200_OK /\ Len(resp.body) = 2

====
